---- MODULE Spec2Model ----
(***************************************************************************)
(* The job pipeline of translateapp/manga_translator_service.py            *)
(* (MangaTranslatorService): two queues, their lazily started worker       *)
(* threads, the progress monitor thread, the two queue locks and the       *)
(* published QueueStatus.  One action is one atomic step of one thread;    *)
(* the steps are cut where another thread can observe or change shared     *)
(* state (lock acquisitions, lock-free queue gets, lock-free field         *)
(* writes, filesystem reads and writes).                                   *)
(***************************************************************************)
EXTENDS Integers, Sequences, FiniteSets, TLC

\* ---------------------------------------------------------------- bounds
\* calls of start_translation made by the caller thread: in the pipeline
\* with both kinds of manga, beside a call of clear_queues, and with local
\* manga only
MaxSubmits == 2
MaxSubmitsCancel == 2
MaxSubmitsLocal == 3
\* the same with a local chapter whose archive may be damaged
MaxSubmitsArchive == 2
\* calls of clear_queues made by the controller thread
MaxCancels == 1
\* recognized images in a well-formed chapter archive; in the chapters
\* submitted beside a call of clear_queues
NImages == 2
NImagesCancel == 1

\* ---------------------------------------------------------------- threads
Caller == "ui"
Canceller == "ctl"
DownloadWorkers == <<"dw1", "dw2">>
TranslationWorkers == <<"tw1", "tw2">>
Monitors == <<"m1", "m2">>

Range(s) == {s[i] : i \in 1..Len(s)}
DW == Range(DownloadWorkers)
TW == Range(TranslationWorkers)
MON == Range(Monitors)
Threads == {Caller, Canceller} \cup DW \cup TW \cup MON

\* ---------------------------------------------------------------- jobs
\* A job is one chapter of one manga.  "A" belongs to an online manga
\* (manga.url starts with http), "B" to a local one.
Jobs == {"A", "B"}
Local == {"B"}

NoJob == "-"
NoTask == [job |-> NoJob, tk |-> 0, q |-> "-"]
DownloadTask(j, n) == [job |-> j, tk |-> n, q |-> "d"]
TranslationTask(j, n) == [job |-> j, tk |-> n, q |-> "t"]

\* Variants of put, for comparison: a put at the head of the queue, and a put
\* that drops a task whose job is already queued.
PutFirst(qu, x) == <<x>> \o qu
PutUnlessQueued(qu, x) ==
    IF \E i \in 1..Len(qu) : qu[i].job = x.job THEN qu ELSE Append(qu, x)

\* Variant, for comparison: the task is put twice.
PutTwice(qu, x) == Append(Append(qu, x), x)

\* queue.Queue with its put, get and the list(queue.queue) snapshot
Put(qu, x) == Append(qu, x)
Get(qu) == Head(qu)
AfterGet(qu) == Tail(qu)

QueueStatus(cur, prog, n, items) ==
    [current_task |-> cur, current_progress |-> prog,
     tasks_remaining |-> n, queued_chapters |-> items]

Free == "free"
NoDir == -1

VARIABLES
    pc,                  \* thread -> position in its code
    ret,                 \* thread -> position to continue at after _emit_queue_status
    task,                \* thread -> the local variable task of a worker loop
    monOf,               \* translation worker -> its monitor_thread
    mjob,                \* monitor -> the job whose directories it was started with
    items,               \* thread -> the queue items read so far in _emit_queue_status
    image_urls,          \* download worker -> _download_from_html: what the fetch of each page image will give
    idx,                 \* download worker -> _download_from_html: images gone through
    downloaded_images,   \* download worker -> _download_from_html: the images saved, by their number
    entries,             \* per job: the entries _download_from_html wrote into chapter_N.zip
    download_queue, translation_queue,
    is_downloading, is_translating,
    current_download, current_translation,
    _download_lock, _translation_lock,
    queue_status,
    translation_running,
    completed_translations,
    zip, raw, out,       \* per job: chapter_N.zip, chapter_N/, chapter_N_translated/
    sig,                 \* worker -> the terminal signals emitted while it handles its task
    plan,                \* the environment: [jobs, submits, cancels, images]
    submits, cancels,    \* calls made so far
    dq_puts, tq_puts,    \* tickets: puts made so far on each queue
    dq_last, tq_last,    \* ticket of the task a worker of the queue began last
    cq_seen              \* tickets queued when the running clear_queues call began

locals == <<pc, ret, task, monOf, mjob, items>>
html == <<image_urls, idx, downloaded_images, entries>>
queues == <<download_queue, translation_queue>>
flags == <<is_downloading, is_translating>>
currents == <<current_download, current_translation>>
locks == <<_download_lock, _translation_lock>>
fs == <<zip, raw, out>>
ghost == <<plan, submits, cancels, dq_puts, tq_puts, dq_last, tq_last, cq_seen>>
vars == <<locals, html, queues, flags, currents, locks, queue_status, translation_running,
          completed_translations, fs, sig, ghost>>

\* ---------------------------------------------------------------- WorkDetector
ImageCount(r) == IF r = "imgs" THEN plan.images ELSE 0

is_downloaded(j) ==
    zip[j] # "none" \/ raw[j] \in {"junk", "imgs"}

\* Variant, for comparison: a translated directory with any image in it
\* counts as translated.
is_translated_nonempty(j) ==
    IF out[j] = NoDir \/ raw[j] = "none"
    THEN FALSE
    ELSE out[j] > 0

is_translated(j) ==
    IF out[j] = NoDir \/ raw[j] = "none"
    THEN FALSE
    ELSE out[j] > 0 /\ out[j] = ImageCount(raw[j])

\* ---------------------------------------------------------------- helpers
FirstIdle(pool) ==
    LET I == {i \in 1..Len(pool) : pc[pool[i]] = "idle"}
    IN  IF I = {} THEN "none" ELSE pool[CHOOSE i \in I : \A k \in I : i <= k]

\* Variant, for comparison: the signal is not emitted.
NotEmitted(w, s) == sig' = sig

\* Variant, for comparison: the signal is emitted twice.
EmittedTwice(w, s) == sig' = [sig EXCEPT ![w] = Append(Append(@, s), s)]

Emitted(w, s) == sig' = [sig EXCEPT ![w] = Append(@, s)]

\* Variant, for comparison: a worker thread is started at every enqueue.
AlwaysStartThread == TRUE

\* the test `if not self.is_downloading` / `if not self.is_translating`
\* that decides whether an enqueue starts a worker thread
NeedsDownloadThread == ~is_downloading
NeedsTranslationThread == ~is_translating

\* Variant, for comparison: the disk is not consulted.
RouteToDownload(j) == "d"

\* the branch of start_translation: which queue the job is put on
Route(j) ==
    IF j \in Local THEN "t"
    ELSE IF is_downloaded(j) THEN "t" ELSE "d"

\* the state after __init__, with what is on disk at that time: the archive
\* and the translated directory of the local chapter
BeginWith(jobs, nsubmits, ncancels, nimages, archives, outputs) ==
    /\ plan = [jobs |-> jobs, submits |-> nsubmits, cancels |-> ncancels,
               images |-> nimages]
    /\ pc = [t \in Threads |-> "idle"]
    /\ ret = [t \in Threads |-> "-"]
    /\ task = [t \in Threads |-> NoTask]
    /\ monOf = [t \in TW |-> "none"]
    /\ mjob = [m \in MON |-> NoJob]
    /\ items = [t \in Threads |-> <<>>]
    /\ image_urls = [w \in DW |-> <<>>]
    /\ idx = [w \in DW |-> 0]
    /\ downloaded_images = [w \in DW |-> <<>>]
    /\ entries = [j \in Jobs |-> <<>>]
    /\ download_queue = <<>>
    /\ translation_queue = <<>>
    /\ is_downloading = FALSE
    /\ is_translating = FALSE
    /\ current_download = NoTask
    /\ current_translation = NoTask
    /\ _download_lock = Free
    /\ _translation_lock = Free
    /\ queue_status = QueueStatus(NoTask, 0, 0, <<>>)
    /\ translation_running = FALSE
    /\ completed_translations = <<>>
    \* the online chapter is not on disk yet; the local chapter's archive
    \* was copied into place, or is missing
    /\ zip \in {[j \in Jobs |-> IF j \in Local THEN z ELSE "none"] : z \in archives}
    /\ raw = [j \in Jobs |-> "none"]
    /\ out \in {[j \in Jobs |-> IF j \in Local THEN o ELSE NoDir] : o \in outputs}
    /\ sig = [t \in DW \cup TW |-> <<>>]
    /\ submits = 0
    /\ cancels = 0
    /\ dq_puts = 0
    /\ tq_puts = 0
    /\ dq_last = 0
    /\ tq_last = 0
    /\ cq_seen = {}

\* no translated directory on disk yet
Begin(jobs, nsubmits, ncancels, nimages, archives) ==
    BeginWith(jobs, nsubmits, ncancels, nimages, archives, {NoDir})

\* ---------------------------------------------------------------- _emit_queue_status
\* with self._download_lock, self._translation_lock: the QueueStatus is built
\* from the queues and the current tasks, stored and emitted.  The step is taken
\* when both locks are free; a thread that holds one of them itself never takes it.
_emit_queue_status(t) ==
    /\ pc[t] = "emit"
    /\ _download_lock = Free
    /\ _translation_lock = Free
    /\ queue_status' = QueueStatus(
            IF current_translation # NoTask THEN current_translation ELSE current_download,
            queue_status.current_progress,
            Len(download_queue) + Len(translation_queue),
            download_queue \o translation_queue)
    /\ pc' = [pc EXCEPT ![t] = ret[t]]
    /\ ret' = [ret EXCEPT ![t] = "-"]
    /\ UNCHANGED <<items, html, task, monOf, mjob, queues, flags, currents, locks,
                   translation_running, completed_translations, fs, sig, ghost>>

\* The same call statement by statement.  The worker loops take their tasks
\* with get(block=False) outside both locks, so a queue can lose its head
\* between two reads of one call.
\* with self._download_lock, self._translation_lock:
\*     download_items = list(self.download_queue.queue)
_emit_queue_status_download_items(t) ==
    /\ pc[t] = "emit"
    /\ _download_lock = Free
    /\ _translation_lock = Free
    /\ _download_lock' = t
    /\ _translation_lock' = t
    /\ items' = [items EXCEPT ![t] = download_queue]
    /\ pc' = [pc EXCEPT ![t] = "emit_items"]
    /\ UNCHANGED <<html, ret, task, monOf, mjob, queues, flags, currents, queue_status,
                   translation_running, completed_translations, fs, sig, ghost>>

\*     translation_items = list(self.translation_queue.queue)
_emit_queue_status_translation_items(t) ==
    /\ pc[t] = "emit_items"
    /\ items' = [items EXCEPT ![t] = @ \o translation_queue]
    /\ pc' = [pc EXCEPT ![t] = "emit_store"]
    /\ UNCHANGED <<html, ret, task, monOf, mjob, queues, flags, currents, locks, queue_status,
                   translation_running, completed_translations, fs, sig, ghost>>

\*     self.queue_status = QueueStatus(...), with the two calls of qsize();
\*     self.queue_status_changed.emit(self.queue_status); the locks are released
_emit_queue_status_store(t) ==
    /\ pc[t] = "emit_store"
    /\ queue_status' = QueueStatus(
            IF current_translation # NoTask THEN current_translation ELSE current_download,
            queue_status.current_progress,
            Len(download_queue) + Len(translation_queue),
            items[t])
    /\ items' = [items EXCEPT ![t] = <<>>]
    /\ _download_lock' = Free
    /\ _translation_lock' = Free
    /\ pc' = [pc EXCEPT ![t] = ret[t]]
    /\ ret' = [ret EXCEPT ![t] = "-"]
    /\ UNCHANGED <<html, task, monOf, mjob, queues, flags, currents,
                   translation_running, completed_translations, fs, sig, ghost>>

\* ---------------------------------------------------------------- _add_to_translation_queue
\* with self._translation_lock: put, start the worker thread if none runs;
\* the call of _emit_queue_status follows (pc "emit")
_add_to_translation_queue(t) ==
    /\ pc[t] = "atq"
    /\ _translation_lock = Free
    /\ translation_queue' = Put(translation_queue, TranslationTask(task[t].job, tq_puts + 1))
    /\ tq_puts' = tq_puts + 1
    /\ IF NeedsTranslationThread
       THEN /\ FirstIdle(TranslationWorkers) # "none"
            /\ is_translating' = TRUE
            /\ pc' = [pc EXCEPT ![t] = "emit", ![FirstIdle(TranslationWorkers)] = "tw_get"]
       ELSE /\ pc' = [pc EXCEPT ![t] = "emit"]
            /\ UNCHANGED is_translating
    /\ UNCHANGED <<items, html, ret, task, monOf, mjob, download_queue, is_downloading,
                   currents, locks, queue_status, translation_running,
                   completed_translations, fs, sig, plan, submits, cancels, dq_puts,
                   dq_last, tq_last, cq_seen>>

\* ---------------------------------------------------------------- start_translation
\* A local manga goes straight to _add_to_translation_queue.  For an online
\* manga _download_lock is taken and is_downloaded decides: the call of
\* _add_to_translation_queue is made with the lock held, or the task is put
\* on the download queue and the download worker started if none runs.
start_translation(j) ==
    /\ pc[Caller] = "idle"
    /\ j \in plan.jobs
    /\ submits < plan.submits
    /\ submits' = submits + 1
    /\ task' = [task EXCEPT ![Caller] = [job |-> j, tk |-> 0, q |-> "-"]]
    /\ IF j \in Local
       THEN /\ pc' = [pc EXCEPT ![Caller] = "atq"]
            /\ ret' = [ret EXCEPT ![Caller] = "idle"]
            /\ UNCHANGED <<download_queue, dq_puts, is_downloading, _download_lock>>
       ELSE /\ _download_lock = Free
            /\ _download_lock' = Caller
            /\ IF Route(j) = "t"
               THEN /\ pc' = [pc EXCEPT ![Caller] = "atq"]
                    /\ ret' = [ret EXCEPT ![Caller] = "st_unlock"]
                    /\ UNCHANGED <<download_queue, dq_puts, is_downloading>>
               ELSE /\ download_queue' = Put(download_queue, DownloadTask(j, dq_puts + 1))
                    /\ dq_puts' = dq_puts + 1
                    /\ ret' = ret
                    /\ IF NeedsDownloadThread
                       THEN /\ FirstIdle(DownloadWorkers) # "none"
                            /\ is_downloading' = TRUE
                            /\ pc' = [pc EXCEPT ![Caller] = "st_unlock",
                                                ![FirstIdle(DownloadWorkers)] = "dw_get"]
                       ELSE /\ pc' = [pc EXCEPT ![Caller] = "st_unlock"]
                            /\ UNCHANGED is_downloading
    /\ UNCHANGED <<items, html, monOf, mjob, translation_queue, is_translating, currents,
                   _translation_lock, queue_status, translation_running,
                   completed_translations, fs, sig, plan, cancels, tq_puts, dq_last,
                   tq_last, cq_seen>>

\* The same call for an online manga statement by statement.
\* with self._download_lock:
start_translation_lock(j) ==
    /\ pc[Caller] = "idle"
    /\ j \in plan.jobs \ Local
    /\ submits < plan.submits
    /\ _download_lock = Free
    /\ _download_lock' = Caller
    /\ submits' = submits + 1
    /\ task' = [task EXCEPT ![Caller] = [job |-> j, tk |-> 0, q |-> "-"]]
    /\ pc' = [pc EXCEPT ![Caller] = "st_is_downloaded"]
    /\ UNCHANGED <<items, html, ret, monOf, mjob, queues, flags, currents,
                   _translation_lock, queue_status, translation_running,
                   completed_translations, fs, sig, plan, cancels, dq_puts, tq_puts,
                   dq_last, tq_last, cq_seen>>

\*     if self.is_downloaded(chapter, manga.url): the archive path and the
\*     chapter directory are looked up on disk
start_translation_is_downloaded ==
    /\ pc[Caller] = "st_is_downloaded"
    /\ IF is_downloaded(task[Caller].job)
       THEN /\ pc' = [pc EXCEPT ![Caller] = "atq"]
            /\ ret' = [ret EXCEPT ![Caller] = "st_unlock"]
       ELSE /\ pc' = [pc EXCEPT ![Caller] = "st_put"]
            /\ UNCHANGED ret
    /\ UNCHANGED <<items, html, task, monOf, mjob, queues, flags, currents, locks,
                   queue_status, translation_running, completed_translations, fs, sig,
                   ghost>>

\*     self.download_queue.put(download_task); the worker thread is started
\*     if none runs
start_translation_put ==
    /\ pc[Caller] = "st_put"
    /\ download_queue' = Put(download_queue, DownloadTask(task[Caller].job, dq_puts + 1))
    /\ dq_puts' = dq_puts + 1
    /\ IF NeedsDownloadThread
       THEN /\ FirstIdle(DownloadWorkers) # "none"
            /\ is_downloading' = TRUE
            /\ pc' = [pc EXCEPT ![Caller] = "st_unlock",
                                ![FirstIdle(DownloadWorkers)] = "dw_get"]
       ELSE /\ pc' = [pc EXCEPT ![Caller] = "st_unlock"]
            /\ UNCHANGED is_downloading
    /\ UNCHANGED <<items, html, ret, task, monOf, mjob, translation_queue,
                   is_translating, currents, locks, queue_status, translation_running,
                   completed_translations, fs, sig, plan, submits, cancels, tq_puts,
                   dq_last, tq_last, cq_seen>>

\* the end of `with self._download_lock`, then the call of _emit_queue_status
start_translation_unlock ==
    /\ pc[Caller] = "st_unlock"
    /\ _download_lock' = Free
    /\ pc' = [pc EXCEPT ![Caller] = "emit"]
    /\ ret' = [ret EXCEPT ![Caller] = "idle"]
    /\ UNCHANGED <<items, html, task, monOf, mjob, queues, flags, currents,
                   _translation_lock, queue_status, translation_running,
                   completed_translations, fs, sig, ghost>>

\* ---------------------------------------------------------------- clear_queues
\* with self._download_lock: the first test of download_queue.empty().  An
\* empty queue ends the with block at once.
clear_queues_lock_download ==
    /\ pc[Canceller] = "idle"
    /\ cancels < plan.cancels
    /\ _download_lock = Free
    /\ cancels' = cancels + 1
    /\ cq_seen' = Range(download_queue) \cup Range(translation_queue)
    /\ IF download_queue = <<>>
       THEN /\ pc' = [pc EXCEPT ![Canceller] = "cq_t_lock"]
            /\ UNCHANGED _download_lock
       ELSE /\ pc' = [pc EXCEPT ![Canceller] = "cq_d_get"]
            /\ _download_lock' = Canceller
    /\ UNCHANGED <<items, html, ret, task, monOf, mjob, queues, flags, currents,
                   _translation_lock, queue_status, translation_running,
                   completed_translations, fs, sig, plan, submits, dq_puts, tq_puts,
                   dq_last, tq_last>>

\* self.download_queue.get(): a blocking get, made with _download_lock held
clear_queues_download_get ==
    /\ pc[Canceller] = "cq_d_get"
    /\ download_queue # <<>>
    /\ download_queue' = AfterGet(download_queue)
    /\ pc' = [pc EXCEPT ![Canceller] = "cq_d_empty"]
    /\ UNCHANGED <<items, html, ret, task, monOf, mjob, translation_queue, flags, currents,
                   locks, queue_status, translation_running,
                   completed_translations, fs, sig, ghost>>

\* while not self.download_queue.empty(); the lock is released when it is
clear_queues_download_empty ==
    /\ pc[Canceller] = "cq_d_empty"
    /\ IF download_queue = <<>>
       THEN /\ _download_lock' = Free
            /\ pc' = [pc EXCEPT ![Canceller] = "cq_t_lock"]
       ELSE /\ pc' = [pc EXCEPT ![Canceller] = "cq_d_get"]
            /\ UNCHANGED _download_lock
    /\ UNCHANGED <<items, html, ret, task, monOf, mjob, queues, flags, currents,
                   _translation_lock, queue_status, translation_running,
                   completed_translations, fs, sig, ghost>>

\* with self._translation_lock: the first test of translation_queue.empty()
clear_queues_lock_translation ==
    /\ pc[Canceller] = "cq_t_lock"
    /\ _translation_lock = Free
    /\ IF translation_queue = <<>>
       THEN /\ pc' = [pc EXCEPT ![Canceller] = "cq_reset"]
            /\ UNCHANGED _translation_lock
       ELSE /\ pc' = [pc EXCEPT ![Canceller] = "cq_t_get"]
            /\ _translation_lock' = Canceller
    /\ UNCHANGED <<items, html, ret, task, monOf, mjob, queues, flags, currents,
                   _download_lock, queue_status, translation_running,
                   completed_translations, fs, sig, ghost>>

\* self.translation_queue.get(): a blocking get, made with _translation_lock held
clear_queues_translation_get ==
    /\ pc[Canceller] = "cq_t_get"
    /\ translation_queue # <<>>
    /\ translation_queue' = AfterGet(translation_queue)
    /\ pc' = [pc EXCEPT ![Canceller] = "cq_t_empty"]
    /\ UNCHANGED <<items, html, ret, task, monOf, mjob, download_queue, flags, currents,
                   locks, queue_status, translation_running,
                   completed_translations, fs, sig, ghost>>

clear_queues_translation_empty ==
    /\ pc[Canceller] = "cq_t_empty"
    /\ IF translation_queue = <<>>
       THEN /\ _translation_lock' = Free
            /\ pc' = [pc EXCEPT ![Canceller] = "cq_reset"]
       ELSE /\ pc' = [pc EXCEPT ![Canceller] = "cq_t_get"]
            /\ UNCHANGED _translation_lock
    /\ UNCHANGED <<items, html, ret, task, monOf, mjob, queues, flags, currents,
                   _download_lock, queue_status, translation_running,
                   completed_translations, fs, sig, ghost>>

\* Variant, for comparison: the reset of clear_queues empties the list of
\* completed translations too.
clear_queues_reset_all ==
    /\ pc[Canceller] = "cq_reset"
    /\ queue_status' = QueueStatus(NoTask, 0, 0, <<>>)
    /\ completed_translations' = <<>>
    /\ pc' = [pc EXCEPT ![Canceller] = "emit"]
    /\ ret' = [ret EXCEPT ![Canceller] = "idle"]
    /\ UNCHANGED <<items, html, task, monOf, mjob, queues, flags, currents,
                   locks, translation_running, fs, sig, ghost>>

\* self.queue_status = QueueStatus(queued_chapters=[]), then _emit_queue_status
clear_queues_reset ==
    /\ pc[Canceller] = "cq_reset"
    /\ queue_status' = QueueStatus(NoTask, 0, 0, <<>>)
    /\ pc' = [pc EXCEPT ![Canceller] = "emit"]
    /\ ret' = [ret EXCEPT ![Canceller] = "idle"]
    /\ UNCHANGED <<items, html, task, monOf, mjob, queues, flags, currents,
                   locks, translation_running,
                   completed_translations, fs, sig, ghost>>

\* ---------------------------------------------------------------- _process_download_queue
\* task = self.download_queue.get(block=False); Empty ends the loop
download_get(w) ==
    /\ pc[w] = "dw_get"
    /\ IF download_queue # <<>>
       THEN /\ task' = [task EXCEPT ![w] = Get(download_queue)]
            /\ download_queue' = AfterGet(download_queue)
            /\ pc' = [pc EXCEPT ![w] = "dw_cur"]
       ELSE /\ pc' = [pc EXCEPT ![w] = "dw_stop"]
            /\ UNCHANGED <<task, download_queue>>
    /\ UNCHANGED <<items, html, ret, monOf, mjob, translation_queue, flags, currents, locks,
                   queue_status, translation_running, completed_translations, fs, sig,
                   ghost>>

\* self.current_download = task, then _emit_queue_status, then _download_chapter
download_current(w) ==
    /\ pc[w] = "dw_cur"
    /\ current_download' = task[w]
    /\ dq_last' = task[w].tk
    /\ pc' = [pc EXCEPT ![w] = "emit"]
    /\ ret' = [ret EXCEPT ![w] = "dl_open"]
    /\ UNCHANGED <<items, html, task, monOf, mjob, queues, flags, current_translation, locks,
                   queue_status, translation_running, completed_translations, fs, sig,
                   plan, submits, cancels, dq_puts, tq_puts, tq_last, cq_seen>>

\* _download_chapter, the direct download up to open(file_path, 'wb'):
\* the directory cannot be made (the outer except: download_error, None),
\* or there is no download_url or the request fails (on to the HTML method),
\* or the archive file is created
_download_chapter_open(w) ==
    /\ pc[w] = "dl_open"
    /\ \/ /\ Emitted(w, "download_error")
          /\ pc' = [pc EXCEPT ![w] = "dw_done"]
          /\ UNCHANGED zip
       \/ /\ pc' = [pc EXCEPT ![w] = "dl_html"]
          /\ UNCHANGED <<zip, sig>>
       \/ /\ zip' = [zip EXCEPT ![task[w].job] = "partial"]
          /\ pc' = [pc EXCEPT ![w] = "dl_write"]
          /\ UNCHANGED sig
    /\ UNCHANGED <<items, html, ret, task, monOf, mjob, queues, flags, currents, locks,
                   queue_status, translation_running, completed_translations, raw, out,
                   ghost>>

\* Variant, for comparison: every written file is accepted as the archive.
VerifiedAlways(content) == [file |-> content, accepted |-> TRUE]

\* Variant, for comparison: every well-formed zip is accepted, with or
\* without an image entry.
VerifiedWellFormed(content) ==
    IF content = "bad"
    THEN [file |-> "none", accepted |-> FALSE]
    ELSE [file |-> content, accepted |-> TRUE]

\* what the verification of a completely written file does with its content
Verified(content) ==
    CASE content = "bad" -> [file |-> "none", accepted |-> FALSE]
      [] content = "noimg" -> [file |-> "noimg", accepted |-> FALSE]
      [] OTHER -> [file |-> content, accepted |-> TRUE]

\* Variant, for comparison: the download is not written while a translation
\* worker is busy with a task.
_download_chapter_write_serial(w) ==
    /\ pc[w] = "dl_write"
    /\ \A t \in TW : task[t] = NoTask
    /\ \/ /\ pc' = [pc EXCEPT ![w] = "dl_html"]
          /\ UNCHANGED <<zip, sig, ret>>
       \/ \E content \in {"good", "webp", "noimg", "bad"} :
            /\ zip' = [zip EXCEPT ![task[w].job] = Verified(content).file]
            /\ IF Verified(content).accepted
               THEN /\ Emitted(w, "download_completed")
                    /\ pc' = [pc EXCEPT ![w] = "atq"]
                    /\ ret' = [ret EXCEPT ![w] = "dw_done"]
               ELSE /\ pc' = [pc EXCEPT ![w] = "dl_html"]
                    /\ UNCHANGED <<sig, ret>>
    /\ UNCHANGED <<items, html, task, monOf, mjob, queues, flags, currents, locks,
                   queue_status, translation_running, completed_translations, raw, out,
                   ghost>>

\* the stream breaks (the partial file stays, on to the HTML method), or the
\* file is written to its end and verified: a bad zip is removed, a zip with
\* no image entry is kept, both go on to the HTML method; a zip with an image
\* entry emits download_completed and is the result
_download_chapter_write(w) ==
    /\ pc[w] = "dl_write"
    /\ \/ /\ pc' = [pc EXCEPT ![w] = "dl_html"]
          /\ UNCHANGED <<zip, sig, ret>>
       \/ \E content \in {"good", "webp", "noimg", "bad"} :
            /\ zip' = [zip EXCEPT ![task[w].job] = Verified(content).file]
            /\ IF Verified(content).accepted
               THEN /\ Emitted(w, "download_completed")
                    /\ pc' = [pc EXCEPT ![w] = "atq"]
                    /\ ret' = [ret EXCEPT ![w] = "dw_done"]
               ELSE /\ pc' = [pc EXCEPT ![w] = "dl_html"]
                    /\ UNCHANGED <<sig, ret>>
    /\ UNCHANGED <<items, html, task, monOf, mjob, queues, flags, currents, locks,
                   queue_status, translation_running, completed_translations, raw, out,
                   ghost>>

\* _download_from_html: no image could be fetched (download_error, None), or
\* the archive is opened for writing at the canonical path
_download_from_html_open(w) ==
    /\ pc[w] = "dl_html"
    /\ \/ /\ Emitted(w, "download_error")
          /\ pc' = [pc EXCEPT ![w] = "dw_done"]
          /\ UNCHANGED zip
       \/ /\ zip' = [zip EXCEPT ![task[w].job] = "partial"]
          /\ pc' = [pc EXCEPT ![w] = "html_zip"]
          /\ UNCHANGED sig
    /\ UNCHANGED <<items, html, ret, task, monOf, mjob, queues, flags, currents, locks,
                   queue_status, translation_running, completed_translations, raw, out,
                   ghost>>

\* the fetched images are written and the archive closed; download_completed
_download_from_html_zip(w) ==
    /\ pc[w] = "html_zip"
    /\ zip' = [zip EXCEPT ![task[w].job] = "good"]
    /\ Emitted(w, "download_completed")
    /\ pc' = [pc EXCEPT ![w] = "atq"]
    /\ ret' = [ret EXCEPT ![w] = "dw_done"]
    /\ UNCHANGED <<items, html, task, monOf, mjob, queues, flags, currents, locks,
                   queue_status, translation_running, completed_translations, raw, out,
                   ghost>>

\* ---------------------------------------------------------------- _download_from_html, image by image
SeqsUpTo(S, n) == UNION {[1..k -> S] : k \in 0..n}

\* images on a chapter page
MaxPageImages == 3

\* RawKumaParser.parse_chapter_images: the page cannot be read or gives no
\* image URL (download_error, None), or it gives the list of image URLs,
\* each of which will be fetched and saved ("ok") or will fail ("err")
_download_from_html_parse(w) ==
    /\ pc[w] = "dl_html"
    /\ \E urls \in SeqsUpTo({"ok", "err"}, MaxPageImages) :
          /\ image_urls' = [image_urls EXCEPT ![w] = urls]
          /\ idx' = [idx EXCEPT ![w] = 0]
          /\ downloaded_images' = [downloaded_images EXCEPT ![w] = <<>>]
          /\ IF urls = <<>>
             THEN /\ Emitted(w, "download_error")
                  /\ pc' = [pc EXCEPT ![w] = "dw_done"]
             ELSE /\ pc' = [pc EXCEPT ![w] = "html_image"]
                  /\ UNCHANGED sig
    /\ UNCHANGED <<items, entries, ret, task, monOf, mjob, queues, flags, currents,
                   locks, queue_status, translation_running, completed_translations,
                   fs, ghost>>

\* Variant, for comparison: an image that fails ends the loop.
_download_from_html_image_aborting(w) ==
    /\ pc[w] = "html_image"
    /\ idx[w] < Len(image_urls[w])
    /\ IF image_urls[w][idx[w] + 1] = "ok"
       THEN /\ idx' = [idx EXCEPT ![w] = @ + 1]
            /\ downloaded_images' = [downloaded_images EXCEPT ![w] = Append(@, idx[w] + 1)]
       ELSE /\ idx' = [idx EXCEPT ![w] = Len(image_urls[w])]
            /\ UNCHANGED downloaded_images
    /\ UNCHANGED <<items, image_urls, entries, pc, ret, task, monOf, mjob, queues,
                   flags, currents, locks, queue_status, translation_running,
                   completed_translations, fs, sig, ghost>>

\* one turn of the loop over image_urls: the image is fetched, converted and
\* saved as NNN.jpg in the temporary directory and appended to
\* downloaded_images, or an exception is logged and the loop continues
_download_from_html_image(w) ==
    /\ pc[w] = "html_image"
    /\ idx[w] < Len(image_urls[w])
    /\ idx' = [idx EXCEPT ![w] = @ + 1]
    /\ IF image_urls[w][idx[w] + 1] = "ok"
       THEN downloaded_images' = [downloaded_images EXCEPT ![w] = Append(@, idx[w] + 1)]
       ELSE UNCHANGED downloaded_images
    /\ UNCHANGED <<items, image_urls, entries, pc, ret, task, monOf, mjob, queues,
                   flags, currents, locks, queue_status, translation_running,
                   completed_translations, fs, sig, ghost>>

\* after the loop: no image was saved (download_error, None), or
\* zipfile.ZipFile(zip_path, 'w') creates the archive at the canonical path
_download_from_html_archive(w) ==
    /\ pc[w] = "html_image"
    /\ idx[w] = Len(image_urls[w])
    /\ IF downloaded_images[w] = <<>>
       THEN /\ Emitted(w, "download_error")
            /\ pc' = [pc EXCEPT ![w] = "dw_done"]
            /\ UNCHANGED <<zip, entries>>
       ELSE /\ zip' = [zip EXCEPT ![task[w].job] = "partial"]
            /\ entries' = [entries EXCEPT ![task[w].job] = <<>>]
            /\ pc' = [pc EXCEPT ![w] = "html_archive"]
            /\ UNCHANGED sig
    /\ UNCHANGED <<items, image_urls, idx, downloaded_images, ret, task, monOf, mjob,
                   queues, flags, currents, locks, queue_status, translation_running,
                   completed_translations, raw, out, ghost>>

\* the saved images are written into the archive and the archive is closed;
\* download_completed, the path is returned
_download_from_html_close(w) ==
    /\ pc[w] = "html_archive"
    /\ zip' = [zip EXCEPT ![task[w].job] = "good"]
    /\ entries' = [entries EXCEPT ![task[w].job] = downloaded_images[w]]
    /\ Emitted(w, "download_completed")
    /\ pc' = [pc EXCEPT ![w] = "atq"]
    /\ ret' = [ret EXCEPT ![w] = "dw_done"]
    /\ UNCHANGED <<items, image_urls, idx, downloaded_images, task, monOf, mjob,
                   queues, flags, currents, locks, queue_status, translation_running,
                   completed_translations, raw, out, ghost>>

\* task_done; self.current_download = None; _emit_queue_status; next turn
download_done(w) ==
    /\ pc[w] = "dw_done"
    /\ current_download' = NoTask
    /\ task' = [task EXCEPT ![w] = NoTask]
    /\ sig' = [sig EXCEPT ![w] = <<>>]
    /\ pc' = [pc EXCEPT ![w] = "emit"]
    /\ ret' = [ret EXCEPT ![w] = "dw_get"]
    /\ UNCHANGED <<items, html, monOf, mjob, queues, flags, current_translation, locks,
                   queue_status, translation_running, completed_translations, fs,
                   ghost>>

\* except Empty: self.is_downloading = False
download_stop_flag(w) ==
    /\ pc[w] = "dw_stop"
    /\ is_downloading' = FALSE
    /\ pc' = [pc EXCEPT ![w] = "dw_stop2"]
    /\ UNCHANGED <<items, html, ret, task, monOf, mjob, queues, is_translating, currents, locks,
                   queue_status, translation_running, completed_translations, fs, sig,
                   ghost>>

\* self.current_download = None; _emit_queue_status; break
download_stop_current(w) ==
    /\ pc[w] = "dw_stop2"
    /\ current_download' = NoTask
    /\ pc' = [pc EXCEPT ![w] = "emit"]
    /\ ret' = [ret EXCEPT ![w] = "idle"]
    /\ UNCHANGED <<items, html, task, monOf, mjob, queues, flags, current_translation, locks,
                   queue_status, translation_running, completed_translations, fs, sig,
                   ghost>>

\* ---------------------------------------------------------------- _process_translation_queue
translation_get(w) ==
    /\ pc[w] = "tw_get"
    /\ IF translation_queue # <<>>
       THEN /\ task' = [task EXCEPT ![w] = Get(translation_queue)]
            /\ translation_queue' = AfterGet(translation_queue)
            /\ pc' = [pc EXCEPT ![w] = "tw_cur"]
       ELSE /\ pc' = [pc EXCEPT ![w] = "tw_stop"]
            /\ UNCHANGED <<task, translation_queue>>
    /\ UNCHANGED <<items, html, ret, monOf, mjob, download_queue, flags, currents, locks,
                   queue_status, translation_running, completed_translations, fs, sig,
                   ghost>>

\* self.current_translation = task, then _emit_queue_status
translation_current(w) ==
    /\ pc[w] = "tw_cur"
    /\ current_translation' = task[w]
    /\ tq_last' = task[w].tk
    /\ pc' = [pc EXCEPT ![w] = "emit"]
    /\ ret' = [ret EXCEPT ![w] = "tw_check"]
    /\ UNCHANGED <<items, html, task, monOf, mjob, queues, flags, current_download, locks,
                   queue_status, translation_running, completed_translations, fs, sig,
                   plan, submits, cancels, dq_puts, tq_puts, dq_last, cq_seen>>

\* Variant, for comparison: the test of is_translated is left out.
translation_check_omitted(w) ==
    /\ pc[w] = "tw_check"
    /\ pc' = [pc EXCEPT ![w] = "tr_prep"]
    /\ UNCHANGED <<items, html, ret, task, monOf, mjob, queues, flags, currents, locks,
                   queue_status, translation_running, completed_translations, fs, sig,
                   ghost>>

\* Variant, for comparison: a job found translated is skipped, but recorded
\* and signalled as completed once more.
translation_check_recording(w) ==
    /\ pc[w] = "tw_check"
    /\ IF is_translated(task[w].job)
       THEN /\ pc' = [pc EXCEPT ![w] = "tw_done"]
            /\ completed_translations' = Append(completed_translations, task[w].job)
            /\ Emitted(w, "translation_completed")
       ELSE /\ pc' = [pc EXCEPT ![w] = "tr_prep"]
            /\ UNCHANGED <<completed_translations, sig>>
    /\ UNCHANGED <<items, html, ret, task, monOf, mjob, queues, flags, currents, locks,
                   queue_status, translation_running, fs, ghost>>

\* if not self.is_translated(...): _translate_chapter, else skip
translation_check(w) ==
    /\ pc[w] = "tw_check"
    /\ pc' = [pc EXCEPT ![w] = IF is_translated(task[w].job) THEN "tw_done" ELSE "tr_prep"]
    /\ UNCHANGED <<items, html, ret, task, monOf, mjob, queues, flags, currents, locks,
                   queue_status, translation_running, completed_translations, fs, sig,
                   ghost>>

\* extract_chapter: what extractall leaves in the chapter directory, and
\* whether it succeeded
Extracted(archive) ==
    CASE archive = "good" -> [dir |-> "imgs", ok |-> TRUE]
      [] archive \in {"webp", "noimg"} -> [dir |-> "junk", ok |-> TRUE]
      [] OTHER -> [dir |-> "empty", ok |-> FALSE]

\* Variant, for comparison: the result of the extraction and the image count
\* are not looked at.
PreparedAlways(j) ==
    [dir |-> IF raw[j] = "none" THEN "empty" ELSE raw[j], ok |-> TRUE]

\* Variant, for comparison: the result of the extraction is looked at, the
\* image count is not.
PreparedUncounted(j) ==
    LET needed == raw[j] \in {"none", "empty"}
        x == IF needed /\ zip[j] # "none"
             THEN Extracted(zip[j])
             ELSE [dir |-> IF raw[j] = "none" THEN "empty" ELSE raw[j], ok |-> TRUE]
    IN  [dir |-> x.dir, ok |-> x.ok]

\* _translate_chapter up to the start of the monitor thread: the translated
\* directory is made, the chapter directory is made if missing, the archive
\* is extracted if the directory is missing or empty and the archive exists,
\* the image files are counted.  A failed extraction or a count of 0 raises:
\* translation_error, translation_running = False.
Prepared(j) ==
    LET needed == raw[j] \in {"none", "empty"}
        x == IF needed /\ zip[j] # "none"
             THEN Extracted(zip[j])
             ELSE [dir |-> IF raw[j] = "none" THEN "empty" ELSE raw[j], ok |-> TRUE]
    IN  [dir |-> x.dir, ok |-> x.ok /\ ImageCount(x.dir) > 0]

_translate_chapter_prepare(w) ==
    /\ pc[w] = "tr_prep"
    /\ out' = [out EXCEPT ![task[w].job] = IF @ = NoDir THEN 0 ELSE @]
    /\ raw' = [raw EXCEPT ![task[w].job] = Prepared(task[w].job).dir]
    /\ IF Prepared(task[w].job).ok
       THEN /\ FirstIdle(Monitors) # "none"
            /\ translation_running' = TRUE
            /\ monOf' = [monOf EXCEPT ![w] = FirstIdle(Monitors)]
            /\ mjob' = [mjob EXCEPT ![FirstIdle(Monitors)] = task[w].job]
            /\ pc' = [pc EXCEPT ![w] = "tr_run", ![FirstIdle(Monitors)] = "mon_check"]
            /\ UNCHANGED sig
       ELSE /\ Emitted(w, "translation_error")
            /\ translation_running' = FALSE
            /\ pc' = [pc EXCEPT ![w] = "tw_done"]
            /\ UNCHANGED <<monOf, mjob>>
    /\ UNCHANGED <<items, html, ret, task, queues, flags, currents, locks,
                   queue_status, completed_translations, zip, ghost>>

\* run_translation in translation_thread, which the worker joins: the external
\* command writes one more output image, or returns (translation_running =
\* False, then monitor_thread.join()), or run_translation raises
\* (translation_error, translation_running = False, no join)
_translate_chapter_run(w) ==
    /\ pc[w] = "tr_run"
    /\ \/ /\ out[task[w].job] < ImageCount(raw[task[w].job])
          /\ out' = [out EXCEPT ![task[w].job] = @ + 1]
          /\ UNCHANGED <<pc, translation_running, sig>>
       \/ /\ translation_running' = FALSE
          /\ pc' = [pc EXCEPT ![w] = "tr_join"]
          /\ UNCHANGED <<out, sig>>
       \/ /\ Emitted(w, "translation_error")
          /\ translation_running' = FALSE
          /\ pc' = [pc EXCEPT ![w] = "tw_done"]
          /\ UNCHANGED out
    /\ UNCHANGED <<items, html, ret, task, monOf, mjob, queues, flags, currents, locks,
                   queue_status, completed_translations, zip, raw, ghost>>

\* Variant, for comparison: the final count is not compared, the job is
\* recorded as completed.
_translate_chapter_verify_uncounted(w) ==
    /\ pc[w] = "tr_join"
    /\ pc[monOf[w]] = "idle"
    /\ completed_translations' = Append(completed_translations, task[w].job)
    /\ Emitted(w, "translation_completed")
    /\ pc' = [pc EXCEPT ![w] = "tw_done"]
    /\ monOf' = [monOf EXCEPT ![w] = "none"]
    /\ UNCHANGED <<items, html, ret, task, mjob, queues, flags, currents, locks,
                   queue_status, translation_running, fs, ghost>>

\* Variant, for comparison: after an incomplete output the external command
\* is run again.
_translate_chapter_verify_retrying(w) ==
    /\ pc[w] = "tr_join"
    /\ pc[monOf[w]] = "idle"
    /\ IF out[task[w].job] = plan.images
       THEN /\ completed_translations' = Append(completed_translations, task[w].job)
            /\ Emitted(w, "translation_completed")
            /\ pc' = [pc EXCEPT ![w] = "tw_done"]
            /\ monOf' = [monOf EXCEPT ![w] = "none"]
       ELSE /\ pc' = [pc EXCEPT ![w] = "tr_run"]
            /\ UNCHANGED <<completed_translations, sig, monOf>>
    /\ UNCHANGED <<items, html, ret, task, mjob, queues, flags, currents, locks,
                   queue_status, translation_running, fs, ghost>>

\* after monitor_thread.join(): the final check of the output count, then
\* the CompletedTranslation record and translation_completed, or
\* translation_error
_translate_chapter_verify(w) ==
    /\ pc[w] = "tr_join"
    /\ pc[monOf[w]] = "idle"
    /\ IF out[task[w].job] = plan.images
       THEN /\ completed_translations' = Append(completed_translations, task[w].job)
            /\ Emitted(w, "translation_completed")
            /\ UNCHANGED translation_running
       ELSE /\ Emitted(w, "translation_error")
            /\ translation_running' = FALSE
            /\ UNCHANGED completed_translations
    /\ pc' = [pc EXCEPT ![w] = "tw_done"]
    /\ monOf' = [monOf EXCEPT ![w] = "none"]
    /\ UNCHANGED <<items, html, ret, task, mjob, queues, flags, currents, locks,
                   queue_status, fs, ghost>>

\* task_done; self.current_translation = None;
\* self.queue_status.current_progress = 0; _emit_queue_status; next turn
translation_done(w) ==
    /\ pc[w] = "tw_done"
    /\ current_translation' = NoTask
    /\ queue_status' = [queue_status EXCEPT !.current_progress = 0]
    /\ task' = [task EXCEPT ![w] = NoTask]
    /\ monOf' = [monOf EXCEPT ![w] = "none"]
    /\ sig' = [sig EXCEPT ![w] = <<>>]
    /\ pc' = [pc EXCEPT ![w] = "emit"]
    /\ ret' = [ret EXCEPT ![w] = "tw_get"]
    /\ UNCHANGED <<items, html, mjob, queues, flags, current_download, locks,
                   translation_running, completed_translations, fs, ghost>>

\* except Empty: self.is_translating = False
translation_stop_flag(w) ==
    /\ pc[w] = "tw_stop"
    /\ is_translating' = FALSE
    /\ pc' = [pc EXCEPT ![w] = "tw_stop2"]
    /\ UNCHANGED <<items, html, ret, task, monOf, mjob, queues, is_downloading, currents, locks,
                   queue_status, translation_running, completed_translations, fs, sig,
                   ghost>>

\* self.current_translation = None; self.queue_status.current_progress = 0;
\* _emit_queue_status; break
translation_stop_current(w) ==
    /\ pc[w] = "tw_stop2"
    /\ current_translation' = NoTask
    /\ queue_status' = [queue_status EXCEPT !.current_progress = 0]
    /\ pc' = [pc EXCEPT ![w] = "emit"]
    /\ ret' = [ret EXCEPT ![w] = "idle"]
    /\ UNCHANGED <<items, html, task, monOf, mjob, queues, flags, current_download, locks,
                   translation_running, completed_translations, fs, sig, ghost>>

\* ---------------------------------------------------------------- _monitor_translation_progress
\* while self.translation_running
monitor_check(m) ==
    /\ pc[m] = "mon_check"
    /\ IF translation_running
       THEN /\ pc' = [pc EXCEPT ![m] = "mon_poll"]
            /\ UNCHANGED mjob
       ELSE /\ pc' = [pc EXCEPT ![m] = "idle"]
            /\ mjob' = [mjob EXCEPT ![m] = NoJob]
    /\ UNCHANGED <<items, html, ret, task, monOf, queues, flags, currents, locks,
                   queue_status, translation_running, completed_translations, fs, sig,
                   ghost>>

Progress(count, total) == (count * 100) \div total

\* Variant, for comparison: an exception in a poll is skipped and the loop
\* goes on.
monitor_poll_skipping(m) ==
    /\ pc[m] = "mon_poll"
    /\ \/ /\ queue_status' = [queue_status EXCEPT
                                !.current_progress = Progress(out[mjob[m]], plan.images)]
          /\ pc' = [pc EXCEPT ![m] = "emit"]
          /\ ret' = [ret EXCEPT ![m] = "mon_check"]
       \/ /\ pc' = [pc EXCEPT ![m] = "mon_check"]
          /\ UNCHANGED <<queue_status, ret>>
    /\ UNCHANGED <<items, html, task, monOf, mjob, queues, flags, currents, locks,
                   translation_running, completed_translations, fs, sig, ghost>>

\* one poll: the output images are counted, the progress is stored in
\* self.queue_status and _emit_queue_status is called; an exception ends the
\* thread (except: break)
monitor_poll(m) ==
    /\ pc[m] = "mon_poll"
    /\ \/ /\ queue_status' = [queue_status EXCEPT
                                !.current_progress = Progress(out[mjob[m]], plan.images)]
          /\ pc' = [pc EXCEPT ![m] = "emit"]
          /\ ret' = [ret EXCEPT ![m] = "mon_check"]
          /\ UNCHANGED mjob
       \/ /\ pc' = [pc EXCEPT ![m] = "idle"]
          /\ mjob' = [mjob EXCEPT ![m] = NoJob]
          /\ UNCHANGED <<queue_status, ret>>
    /\ UNCHANGED <<items, html, task, monOf, queues, flags, currents, locks,
                   translation_running, completed_translations, fs, sig, ghost>>

\* ---------------------------------------------------------------- the system
CallerStep ==
    \/ \E j \in Jobs : start_translation(j)
    \/ start_translation_unlock
    \/ _add_to_translation_queue(Caller)

LocalCallerStep ==
    \/ \E j \in Jobs : start_translation(j)
    \/ _add_to_translation_queue(Caller)

StatusStep ==
    \E t \in Threads : _emit_queue_status(t)

DownloadStep ==
    \E w \in DW :
        \/ download_get(w)
        \/ download_current(w)
        \/ _download_chapter_open(w)
        \/ _download_chapter_write(w)
        \/ _download_from_html_open(w)
        \/ _download_from_html_zip(w)
        \/ _add_to_translation_queue(w)
        \/ download_done(w)
        \/ download_stop_flag(w)
        \/ download_stop_current(w)

TranslationStep ==
    \E w \in TW :
        \/ translation_get(w)
        \/ translation_current(w)
        \/ translation_check(w)
        \/ _translate_chapter_prepare(w)
        \/ _translate_chapter_run(w)
        \/ _translate_chapter_verify(w)
        \/ translation_done(w)
        \/ translation_stop_flag(w)
        \/ translation_stop_current(w)

MonitorStep ==
    \E m \in MON : monitor_check(m) \/ monitor_poll(m)

CancelStep ==
    \/ clear_queues_lock_download
    \/ clear_queues_download_get
    \/ clear_queues_download_empty
    \/ clear_queues_lock_translation
    \/ clear_queues_translation_get
    \/ clear_queues_translation_empty
    \/ clear_queues_reset

\* The pipeline under calls of start_translation for an online and a local
\* chapter.
Init == Begin(Jobs, MaxSubmits, 0, NImages, {"good", "none"})
Next == CallerStep \/ StatusStep \/ DownloadStep \/ TranslationStep \/ MonitorStep
Spec == Init /\ [][Next]_vars

\* The pipeline under calls of start_translation for the online chapter and
\* a call of clear_queues.
InitCancel == Begin(Jobs \ Local, MaxSubmitsCancel, MaxCancels, NImagesCancel, {"good"})
NextCancel == Next \/ CancelStep
SpecCancel == InitCancel /\ [][NextCancel]_vars

\* The translation queue under calls of start_translation for a local
\* chapter whose archive is in place.
InitLocal == Begin(Local, MaxSubmitsLocal, 0, NImages, {"good"})
NextLocal == LocalCallerStep \/ StatusStep \/ TranslationStep \/ MonitorStep
SpecLocal == InitLocal /\ [][NextLocal]_vars

\* The translation queue under calls of start_translation for a local
\* chapter whose archive is well-formed, cannot be extracted, holds no
\* recognized image, or is missing.
InitArchive == Begin(Local, MaxSubmitsArchive, 0, NImages,
                     {"good", "bad", "noimg", "webp", "none"})
SpecArchive == InitArchive /\ [][NextLocal]_vars

\* The translation queue under calls of start_translation for a local
\* chapter, with _emit_queue_status taken statement by statement.
MaxSubmitsStatus == 2

StatusStatements ==
    \E t \in Threads :
        \/ _emit_queue_status_download_items(t)
        \/ _emit_queue_status_translation_items(t)
        \/ _emit_queue_status_store(t)

InitStatus == Begin(Local, MaxSubmitsStatus, 0, NImages, {"good"})
NextStatus == LocalCallerStep \/ StatusStatements \/ TranslationStep \/ MonitorStep
SpecStatus == InitStatus /\ [][NextStatus]_vars

\* The pipeline under one call of start_translation for the online chapter,
\* with _download_from_html taken image by image.
MaxSubmitsFallback == 1

FallbackCallerStep ==
    \/ \E j \in Jobs : start_translation(j)
    \/ start_translation_unlock

FallbackDownloadStep ==
    \E w \in DW :
        \/ download_get(w)
        \/ download_current(w)
        \/ _download_chapter_open(w)
        \/ _download_chapter_write(w)
        \/ _download_from_html_parse(w)
        \/ _download_from_html_image(w)
        \/ _download_from_html_archive(w)
        \/ _download_from_html_close(w)
        \/ _add_to_translation_queue(w)
        \/ download_done(w)
        \/ download_stop_flag(w)
        \/ download_stop_current(w)

InitFallback == Begin(Jobs \ Local, MaxSubmitsFallback, 0, NImages, {"none"})
NextFallback ==
    FallbackCallerStep \/ StatusStep \/ FallbackDownloadStep \/ TranslationStep \/ MonitorStep
SpecFallback == InitFallback /\ [][NextFallback]_vars

\* The translation queue under calls of start_translation for a local
\* chapter of one to MaxRawImages images, whose archive is well-formed,
\* holds no recognized image, or is missing.
MaxSubmitsDetector == 2
MaxRawImages == 3

InitDetector ==
    \E n \in 1..MaxRawImages :
        Begin(Local, MaxSubmitsDetector, 0, n, {"good", "noimg", "none"})
SpecDetector == InitDetector /\ [][NextLocal]_vars

\* The pipeline under calls of start_translation for the online chapter,
\* with start_translation taken statement by statement.
MaxSubmitsLocks == 2

LocksCallerStep ==
    \/ \E j \in Jobs : start_translation_lock(j)
    \/ start_translation_is_downloaded
    \/ start_translation_put
    \/ start_translation_unlock
    \/ _add_to_translation_queue(Caller)

InitLocks == Begin(Jobs \ Local, MaxSubmitsLocks, 0, NImagesCancel, {"none"})
NextLocks ==
    LocksCallerStep \/ StatusStep \/ DownloadStep \/ TranslationStep \/ MonitorStep
SpecLocks == InitLocks /\ [][NextLocks]_vars

\* The translation queue under calls of start_translation for a local
\* chapter whose translated directory may hold up to MaxOutputImages images
\* of an earlier run.
MaxSubmitsProgress == 2
MaxOutputImages == 3

InitProgress ==
    BeginWith(Local, MaxSubmitsProgress, 0, NImages, {"good"},
              {NoDir} \cup 0..MaxOutputImages)
SpecProgress == InitProgress /\ [][NextLocal]_vars

\* ================================================================ properties
SubmitStep(j) == submits' = submits + 1 /\ task'[Caller].job = j

Count(qu, j) == Cardinality({i \in 1..Len(qu) : qu[i].job = j})
Entries(dq, tq, j) == Count(dq, j) + Count(tq, j)

Workers == DW \cup TW
DoneOf(w) == IF w \in DW THEN "dw_done" ELSE "tw_done"
GetOf(w) == IF w \in DW THEN "dw_get" ELSE "tw_get"
QueueOf(w) == IF w \in DW THEN download_queue ELSE translation_queue
ErrorOf(w) == IF w \in DW THEN "download_error" ELSE "translation_error"
CompletedOf(w) == IF w \in DW THEN "download_completed" ELSE "translation_completed"

\* ---------------------------------------------------------------- C1
\* C1: a call of start_translation always returns: the caller is never in
\* _emit_queue_status waiting for _download_lock while it holds that lock
\* itself, a wait that no thread can end and behind which every later
\* _emit_queue_status of a worker waits too.
C1_EnqueueReturns ==
    ~(pc[Caller] = "emit" /\ _download_lock = Caller)

\* ---------------------------------------------------------------- C2
\* C2: a call of start_translation adds exactly one queue entry.  A local job
\* and an online job that is_downloaded at the call go to
\* _add_to_translation_queue, whose put is the only one the caller makes; an
\* online job that is not downloaded is put on the download queue and nowhere
\* else.
C2_SubmitRoutes ==
    [][\A j \in Jobs :
        /\ SubmitStep(j) =>
             IF j \in Local \/ is_downloaded(j)
             THEN /\ pc'[Caller] = "atq"
                  /\ UNCHANGED queues
             ELSE /\ pc'[Caller] = "st_unlock"
                  /\ download_queue' = Append(download_queue, DownloadTask(j, dq_puts + 1))
                  /\ UNCHANGED translation_queue
        /\ (pc[Caller] = "atq" /\ pc'[Caller] # "atq" /\ task[Caller].job = j) =>
             /\ pc'[Caller] = "emit"
             /\ translation_queue' =
                    Append(translation_queue, TranslationTask(j, tq_puts + 1))
             /\ UNCHANGED download_queue
        /\ (pc[Caller] \notin {"idle", "atq"} /\ pc'[Caller] # pc[Caller]) =>
             UNCHANGED queues
      ]_vars

\* C2, reached: a local job whose archive is missing was submitted and put on
\* the translation queue, the download queue was never used.
C2_LocalNotDownloadedQueued ==
    /\ pc[Caller] = "emit"
    /\ task[Caller].job \in Local
    /\ ~is_downloaded(task[Caller].job)
    /\ translation_queue # <<>>
    /\ tq_puts = 1
    /\ dq_puts = 0

\* C2 as stated: a job that is neither translated nor downloaded at the call
\* is put on the download queue.
C2_NotDownloadedToDownloadQueue ==
    [][\A j \in Jobs :
        (SubmitStep(j) /\ ~is_translated(j) /\ ~is_downloaded(j)) =>
            download_queue' = Append(download_queue, DownloadTask(j, dq_puts + 1))
      ]_vars

C4_OneInvocation ==
    Cardinality({w \in TW : pc[w] = "tr_run"}) <= 1

\* C4, reached: run_translation is in progress in one translation worker
\* thread while the thread of an earlier worker has not ended yet.
C4_InvocationBesideEndingWorker ==
    \E w \in TW : \E v \in TW \ {w} :
        /\ pc[w] = "tr_run"
        /\ pc[v] # "idle"

\* ---------------------------------------------------------------- C5
\* C5: within each queue the tasks are begun in the order of their puts: the
\* ticket of a task a worker begins is greater than the ticket of every task
\* begun from that queue before.
C5_Fifo ==
    [][/\ \A w \in TW :
            (pc[w] = "tw_cur" /\ pc'[w] # "tw_cur") => task[w].tk > tq_last
       /\ \A w \in DW :
            (pc[w] = "dw_cur" /\ pc'[w] # "dw_cur") => task[w].tk > dq_last
      ]_vars

\* C5, reached: three tasks were put on the translation queue and begun in
\* that order, the third by a worker thread started while the thread of the
\* first worker had not yet ended.
C5_ThirdBegunAfterRestart ==
    /\ tq_puts = 3
    /\ tq_last = 3
    /\ task[TranslationWorkers[2]].tk = 3
    /\ pc[TranslationWorkers[2]] = "tr_run"

\* ---------------------------------------------------------------- C6
\* C6: a failure ends the task, not the worker: the step that emits the error
\* signal takes the worker to the end of its turn, a worker reaches the end
\* of a turn with exactly one terminal signal emitted (or having skipped a
\* translated job), from there it publishes the status and returns to the
\* get, and the get takes the head of the queue when there is one.
C6_FailureContained ==
    [][\A w \in Workers :
        /\ (sig'[w] = Append(sig[w], ErrorOf(w))) => pc'[w] = DoneOf(w)
        /\ (pc'[w] = DoneOf(w) /\ pc[w] \notin {DoneOf(w), "tw_check"}) =>
              sig'[w] \in {<<ErrorOf(w)>>, <<CompletedOf(w)>>}
        /\ (pc[w] = DoneOf(w) /\ pc'[w] # DoneOf(w)) =>
              (pc'[w] = "emit" /\ ret'[w] = GetOf(w))
        /\ (pc[w] = "emit" /\ ret[w] = GetOf(w) /\ pc'[w] # "emit") =>
              pc'[w] = GetOf(w)
        /\ (pc[w] = GetOf(w) /\ pc'[w] # GetOf(w) /\ QueueOf(w) # <<>>) =>
              task'[w] = Head(QueueOf(w))
      ]_vars

\* C6, reached: the first task failed (the archive of the job is missing, no
\* translation was completed) and the worker has begun the second one.
C6_NextTaskAfterFailure ==
    \E w \in TW :
        /\ pc[w] = "tr_prep"
        /\ task[w].tk = 2
        /\ tq_last = 2
        /\ zip[task[w].job] = "none"
        /\ raw[task[w].job] = "empty"
        /\ completed_translations = <<>>

\* ---------------------------------------------------------------- C7
\* C7: submission is not idempotent: every put the caller makes, on either
\* queue, adds one entry for the job, whether or not an entry for the job is
\* queued already.
C7_EverySubmitAddsAnEntry ==
    [][\A j \in Jobs :
        ( \/ SubmitStep(j) /\ pc'[Caller] = "st_unlock"
          \/ pc[Caller] = "atq" /\ pc'[Caller] # "atq" /\ task[Caller].job = j ) =>
            Entries(download_queue', translation_queue', j) =
                Entries(download_queue, translation_queue, j) + 1
      ]_vars

\* C7, reached: the job was submitted twice and has two queue entries.
C7_TwoEntries ==
    \E j \in Jobs :
        /\ submits = 2
        /\ Entries(download_queue, translation_queue, j) = 2

\* C7 as stated: a job never has more than one entry across the two queues.
C7_OneEntryPerJob ==
    \A j \in Jobs : Entries(download_queue, translation_queue, j) <= 1

\* ---------------------------------------------------------------- C8
\* C8: the download worker never has the archive of a job open for writing
\* while the translation worker is about to extract that archive.
C8_NoSharedDiskAccess ==
    \A j \in Jobs :
        ~ /\ \E d \in DW : task[d].job = j /\ pc[d] \in {"dl_write", "html_zip"}
          /\ \E w \in TW : task[w].job = j /\ pc[w] = "tr_prep"
          /\ raw[j] \in {"none", "empty"}

\* ---------------------------------------------------------------- C9
\* C9: no worker holds a task that was queued when the clear_queues call
\* began.
C9_QueuedTasksNotProcessed ==
    \A w \in Workers : task[w] \notin cq_seen

\* ---------------------------------------------------------------- C10
\* C10: a translation in progress when clear_queues is called comes to its
\* terminal signal: it is never left in monitor_thread.join() with the monitor
\* waiting in _emit_queue_status for _download_lock, held by a clear_queues
\* call that waits in get() on the empty download queue.
C10_InFlightTranslationEnds ==
    ~ /\ pc[Canceller] = "cq_d_get"
      /\ download_queue = <<>>
      /\ \E w \in TW :
            /\ pc[w] = "tr_join"
            /\ monOf[w] \in MON
            /\ pc[monOf[w]] = "emit"

\* ---------------------------------------------------------------- C11
\* C11: the download worker puts a job on the translation queue only after
\* download_completed, with one put, as the last entry behind every task
\* queued at that moment, and in no other step of its turn changes the
\* translation queue.
C11_CompletedDownloadAppended ==
    [][\A w \in DW :
        /\ (sig'[w] = Append(sig[w], "download_completed")) => pc'[w] = "atq"
        /\ (pc[w] = "atq" /\ pc'[w] # "atq") =>
              /\ sig[w] = <<"download_completed">>
              /\ translation_queue' =
                    Append(translation_queue, TranslationTask(task[w].job, tq_puts + 1))
              /\ pc'[w] = "emit"
              /\ ret'[w] = "dw_done"
        /\ (pc[w] # "atq" /\ pc'[w] # pc[w]) => UNCHANGED translation_queue
      ]_vars

\* C11, reached: the online job, submitted first, was downloaded and put
\* behind the task of the local job, submitted after it.
C11_DownloadedJobBehindLaterSubmission ==
    /\ Len(translation_queue) = 2
    /\ translation_queue[1].job \in Local
    /\ translation_queue[2].job \notin Local
    /\ dq_puts = 1
    /\ \E w \in DW : pc[w] = "emit" /\ ret[w] = "dw_done"

\* ---------------------------------------------------------------- C12
\* C12: a fetch that fails ends the turn of the download worker with exactly
\* the download_error signal and with both queues as they were; the failed
\* task is dropped by the worker, the download queue grows only by a call of
\* start_translation, and the download worker puts a job on the translation
\* queue only with download_completed emitted and an archive with an image
\* entry on disk.
C12_FailedFetchNotQueued ==
    [][\A w \in DW :
        /\ (pc[w] \in {"dl_open", "dl_write", "dl_html", "html_zip"} /\ pc'[w] = "dw_done") =>
              /\ sig'[w] = <<"download_error">>
              /\ UNCHANGED queues
        /\ (pc[w] = "dw_done" /\ pc'[w] # "dw_done") =>
              /\ task'[w] = NoTask
              /\ UNCHANGED queues
        /\ (Len(download_queue') > Len(download_queue)) => submits' = submits + 1
        /\ (pc[w] = "atq" /\ pc'[w] # "atq") =>
              /\ sig[w] = <<"download_completed">>
              /\ zip[task[w].job] \in {"good", "webp"}
      ]_vars

\* C12, reached: the fetch of the only submitted job has failed, the error
\* signal is emitted and both queues are empty.
C12_FetchFailedQueuesEmpty ==
    \E w \in DW :
        /\ pc[w] = "dw_done"
        /\ sig[w] = <<"download_error">>
        /\ submits = 1
        /\ download_queue = <<>>
        /\ translation_queue = <<>>
        /\ tq_puts = 0

\* ---------------------------------------------------------------- C13
\* the archive of the job cannot be extracted and the chapter directory
\* holds nothing yet
ExtractionFails(j) ==
    /\ raw[j] \in {"none", "empty"}
    /\ zip[j] \in {"bad", "partial"}

\* C13: a job is not given up after a failed extraction while the archive
\* that failed is still on disk: the archive is deleted and fetched again
\* before the job can end in an error.
C13_ExtractionRetried ==
    \A w \in TW :
        ~ /\ pc[w] = "tw_done"
          /\ sig[w] = <<"translation_error">>
          /\ ExtractionFails(task[w].job)

\* ---------------------------------------------------------------- C14
\* C14: a failed extraction ends the task with exactly the translation_error
\* signal: the worker goes to the end of its turn, no monitor is started,
\* run_translation is not entered, the output directory stays as it is and
\* nothing is appended to completed_translations.
C14_FailedExtractionEndsTask ==
    [][\A w \in TW :
        (pc[w] = "tr_prep" /\ pc'[w] # "tr_prep" /\ ExtractionFails(task[w].job)) =>
            /\ pc'[w] = "tw_done"
            /\ sig'[w] = <<"translation_error">>
            /\ translation_running' = FALSE
            /\ \A m \in MON : pc'[m] = pc[m]
            /\ out'[task[w].job] \in {0, out[task[w].job]}
            /\ UNCHANGED <<completed_translations, zip>>
      ]_vars

\* C14, reached: the archive of the job could not be extracted, the task has
\* ended in translation_error, nothing was written or recorded.
C14_ExtractionFailedNothingRecorded ==
    \E w \in TW :
        /\ pc[w] = "tw_done"
        /\ sig[w] = <<"translation_error">>
        /\ zip[task[w].job] = "bad"
        /\ raw[task[w].job] = "empty"
        /\ out[task[w].job] = 0
        /\ completed_translations = <<>>

\* ---------------------------------------------------------------- C15
\* C15: while a translation worker is in the translation of one task whose
\* output images are all written (from run_translation to the end of
\* monitor_thread.join()), current_progress of the QueueStatus never
\* decreases.
C15_ProgressMonotone ==
    [][\A w \in TW :
        ( /\ pc[w] \in {"tr_run", "tr_join"}
          /\ pc'[w] \in {"tr_run", "tr_join"}
          /\ task'[w] = task[w]
          /\ out[task[w].job] = plan.images ) =>
            queue_status'.current_progress >= queue_status.current_progress
      ]_vars

\* ---------------------------------------------------------------- C16
\* C16: when the first task begun by the translation workers has ended with
\* translation_completed and the worker has not yet reset the progress, the
\* QueueStatus shows a progress of 100.  (No other thread has written the
\* progress of this task: its monitor is the only one started so far.)
C16_CompletedAtHundred ==
    \A w \in TW :
        ( /\ pc[w] = "tw_done"
          /\ sig[w] = <<"translation_completed">>
          /\ tq_last = 1 ) =>
            queue_status.current_progress = 100

\* ---------------------------------------------------------------- C17
\* C17: at no time are two progress monitor threads alive.
C17_OnePoller ==
    Cardinality({m \in MON : pc[m] # "idle"}) <= 1

\* ---------------------------------------------------------------- C18
\* C18: a poll either stores the progress computed from the output count and
\* goes on to publish it, or, on an exception, ends the monitor thread for
\* the rest of the translation; the exception changes nothing else: the
\* translation worker, translation_running, the signals and the record of
\* completed translations stay as they are.
C18_PollErrorEndsPoller ==
    [][\A m \in MON :
        (pc[m] = "mon_poll" /\ pc'[m] # "mon_poll") =>
            \/ /\ pc'[m] = "emit"
               /\ ret'[m] = "mon_check"
               /\ queue_status'.current_progress = Progress(out[mjob[m]], plan.images)
            \/ /\ pc'[m] = "idle"
               /\ \A w \in TW : pc'[w] = pc[w]
               /\ UNCHANGED <<queue_status, translation_running, sig,
                              completed_translations, out>>
      ]_vars

\* C18, reached: run_translation is in progress and translation_running is
\* set, but no monitor thread is alive: the monitor of the translation has
\* ended on an exception in a poll.
C18_InvocationWithoutPoller ==
    \E w \in TW :
        /\ pc[w] = "tr_run"
        /\ translation_running
        /\ monOf[w] \in MON
        /\ \A m \in MON : pc[m] = "idle"

\* C18 as stated: an exception in a poll does not end the monitor while the
\* external invocation runs.
C18_PollerKeepsPolling ==
    [][\A m \in MON :
        (pc[m] = "mon_poll" /\ translation_running /\ translation_running') =>
            pc'[m] # "idle"
      ]_vars

C20_InvokedOnce ==
    [][\A w \in TW :
        /\ (pc'[w] = "tw_check" /\ pc[w] # "tw_check") =>
              (pc[w] = "emit" /\ ret[w] = "tw_check" /\ tq_last = task[w].tk)
        /\ (pc[w] = "tw_cur" /\ pc'[w] # "tw_cur") =>
              (tq_last' = task[w].tk /\ tq_last < task[w].tk)
        /\ (pc'[w] = "tr_prep" /\ pc[w] # "tr_prep") => pc[w] = "tw_check"
        /\ (pc'[w] = "tr_run" /\ pc[w] # "tr_run") => pc[w] = "tr_prep"
        /\ (pc[w] = "tr_run" /\ pc'[w] # "tr_run") => pc'[w] \in {"tr_join", "tw_done"}
        /\ (pc[w] = "tr_join" /\ pc'[w] # "tr_join") => pc'[w] = "tw_done"
        /\ (pc[w] = "tw_done" /\ pc'[w] # "tw_done") => task'[w] = NoTask
        /\ (pc[w] \in {"tw_check", "tr_prep", "tr_run", "tr_join", "tw_done"}) =>
              (pc'[w] = pc[w] \/ task'[w] \in {task[w], NoTask})
      ]_vars

\* C20, reached: run_translation has returned with fewer output images than
\* input images, the monitor is joined, the task has ended in
\* translation_error and is given up.
C20_IncompleteOutputAbandoned ==
    \E w \in TW :
        /\ pc[w] = "tw_done"
        /\ sig[w] = <<"translation_error">>
        /\ raw[task[w].job] = "imgs"
        /\ out[task[w].job] > 0
        /\ out[task[w].job] < plan.images
        /\ monOf[w] = "none"

\* ---------------------------------------------------------------- C21
\* C21: when the chapter directory holds no recognized image file after the
\* extraction step (the extraction did not fail, or was not needed), the task
\* ends with exactly the translation_error signal: no monitor thread is
\* started, run_translation is not entered, nothing is written to the output
\* directory and nothing is appended to completed_translations.
C21_NoImagesEndsTask ==
    [][\A w \in TW :
        ( /\ pc[w] = "tr_prep"
          /\ pc'[w] # "tr_prep"
          /\ ~ExtractionFails(task[w].job)
          /\ ImageCount(raw'[task[w].job]) = 0 ) =>
            /\ pc'[w] = "tw_done"
            /\ sig'[w] = <<"translation_error">>
            /\ translation_running' = FALSE
            /\ \A m \in MON : pc'[m] = pc[m]
            /\ monOf'[w] = "none"
            /\ out'[task[w].job] = 0
            /\ UNCHANGED <<completed_translations, zip>>
      ]_vars

\* C21, reached: the archive was extracted and holds no recognized image
\* file; the task has ended in translation_error, no monitor thread is
\* alive and nothing was written or recorded.
C21_NoImagesNothingStarted ==
    \E w \in TW :
        /\ pc[w] = "tw_done"
        /\ sig[w] = <<"translation_error">>
        /\ zip[task[w].job] \in {"noimg", "webp"}
        /\ raw[task[w].job] = "junk"
        /\ out[task[w].job] = 0
        /\ \A m \in MON : pc[m] = "idle"
        /\ completed_translations = <<>>

\* ---------------------------------------------------------------- C22
\* C22: completed_translations only grows, and only by one record at its
\* end: a step either leaves the list as it is, or is the step of a
\* translation worker that, after run_translation has returned and the
\* monitor was joined, finds all output images written, appends the record
\* of its task and emits translation_completed; and every step that emits
\* translation_completed appends exactly that one record.
C22_AppendOnly ==
    [][/\ \/ UNCHANGED completed_translations
          \/ \E w \in TW :
                /\ pc[w] = "tr_join"
                /\ pc'[w] = "tw_done"
                /\ out[task[w].job] = plan.images
                /\ completed_translations' =
                       Append(completed_translations, task[w].job)
       /\ \A w \in TW :
            (sig'[w] # sig[w] /\ sig'[w] = Append(sig[w], "translation_completed")) =>
                completed_translations' = Append(completed_translations, task[w].job)
      ]_vars

\* C22, reached: a record was appended, a call of clear_queues has run to its
\* end and the workers have ended; the record is still there.
C22_RecordKeptAfterClear ==
    /\ completed_translations = <<"A">>
    /\ cancels = 1
    /\ pc[Canceller] = "idle"
    /\ \A w \in TW : pc[w] = "idle"
    /\ queue_status.tasks_remaining = 0

\* ---------------------------------------------------------------- C23
\* C23: in every QueueStatus stored in self.queue_status, where any reader
\* finds it, tasks_remaining is the length of queued_chapters.
C23_StatusIsSnapshot ==
    queue_status.tasks_remaining = Len(queue_status.queued_chapters)

\* ---------------------------------------------------------------- C24
\* C24: at no time do two worker threads of one queue exist together.
C24_OneWorkerPerQueue ==
    /\ Cardinality({w \in DW : pc[w] # "idle"}) <= 1
    /\ Cardinality({w \in TW : pc[w] # "idle"}) <= 1

\* ---------------------------------------------------------------- C25
\* C25: whenever a download worker is inside _download_chapter for one job
\* and a translation worker inside _translate_chapter for another, each of
\* the two can take its next step at once: neither waits for the other.
C25_WorkersIndependent ==
    \A d \in DW, w \in TW :
        ( /\ pc[d] \in {"dl_open", "dl_write", "dl_html", "html_zip"}
          /\ pc[w] \in {"tr_prep", "tr_run"}
          /\ task[d].job # task[w].job ) =>
            /\ ENABLED ( \/ _download_chapter_open(d)
                         \/ _download_chapter_write(d)
                         \/ _download_from_html_open(d)
                         \/ _download_from_html_zip(d) )
            /\ ENABLED ( \/ _translate_chapter_prepare(w)
                         \/ _translate_chapter_run(w) )

\* C25, reached: the archive of the online job is being written by a
\* download worker while run_translation is in progress for the local job,
\* whose archive was in place and is extracted.
C25_DownloadBesideTranslation ==
    \E d \in DW, w \in TW :
        /\ pc[d] = "dl_write"
        /\ task[d].job = "A"
        /\ current_download = task[d]
        /\ pc[w] = "tr_run"
        /\ task[w].job = "B"
        /\ current_translation = task[w]
        /\ is_downloaded("B")
        /\ raw["B"] = "imgs"
        /\ out["B"] = 1
        /\ translation_running

C27_FailedFetchNotDownloaded ==
    \A w \in DW :
        (pc[w] = "dw_done" /\ sig[w] = <<"download_error">>) =>
            ~is_downloaded(task[w].job)

\* ---------------------------------------------------------------- C28
\* the numbers of the page images whose fetch succeeds, in page order
OkImages(urls) ==
    LET S == {i \in 1..Len(urls) : urls[i] = "ok"}
    IN  [k \in 1..Cardinality(S) |->
            CHOOSE i \in S : Cardinality({x \in S : x < i}) = k - 1]

\* C28: _download_from_html ends in download_error only when the page gave
\* no image or none of its images could be fetched; the loop is left only
\* after every image of the page was gone through; when at least one image
\* was fetched the archive is made at the canonical path, its entries are
\* exactly the fetched images in page order, and download_completed is
\* emitted.
C28_FallbackDegrades ==
    [][\A w \in DW :
        /\ (pc[w] = "dl_html" /\ pc'[w] = "dw_done") =>
              image_urls'[w] = <<>>
        /\ (pc[w] = "html_image" /\ pc'[w] # "html_image") =>
              /\ idx[w] = Len(image_urls[w])
              /\ IF OkImages(image_urls[w]) = <<>>
                 THEN /\ pc'[w] = "dw_done"
                      /\ sig'[w] = Append(sig[w], "download_error")
                      /\ UNCHANGED <<zip, entries>>
                 ELSE /\ pc'[w] = "html_archive"
                      /\ sig'[w] = sig[w]
        /\ (pc[w] = "html_archive" /\ pc'[w] # "html_archive") =>
              /\ pc'[w] = "atq"
              /\ zip'[task[w].job] = "good"
              /\ entries'[task[w].job] = OkImages(image_urls[w])
              /\ sig'[w] = Append(sig[w], "download_completed")
      ]_vars

\* C28, reached: of three page images the second failed; the archive holds
\* the first and the third and the download is completed.
C28_ArchiveOfTheFetchedImages ==
    \E w \in DW :
        /\ pc[w] = "atq"
        /\ image_urls[w] = <<"ok", "err", "ok">>
        /\ zip[task[w].job] = "good"
        /\ entries[task[w].job] = <<1, 3>>
        /\ sig[w] = <<"download_completed">>

\* ---------------------------------------------------------------- C29
\* C29: the test of is_translated made for a dequeued task finds the job
\* translated (the task is skipped) if and only if the translated directory
\* exists, the chapter directory exists, the translated directory holds at
\* least one recognized image and as many as the chapter directory.
C29_TranslatedIffCountsEqual ==
    [][\A w \in TW :
        (pc[w] = "tw_check" /\ pc'[w] # "tw_check") =>
            LET j == task[w].job
                translated == IF out[j] = NoDir THEN 0 ELSE out[j]
                chapter == ImageCount(raw[j])
            IN  /\ pc'[w] \in {"tw_done", "tr_prep"}
                /\ pc'[w] = "tw_done" <=>
                       /\ out[j] # NoDir
                       /\ raw[j] # "none"
                       /\ translated > 0
                       /\ translated = chapter
      ]_vars

\* C29, reached: the translated directory holds one image, the chapter
\* directory three; the job was found not translated.
C29_FewerTranslatedThanRaw ==
    \E w \in TW :
        /\ pc[w] = "tr_prep"
        /\ raw[task[w].job] = "imgs"
        /\ plan.images = 3
        /\ out[task[w].job] = 1

\* ---------------------------------------------------------------- C30
\* C30: a call of start_translation for a job whose archive a download
\* worker is writing at that moment does not find the job downloaded: it
\* does not go on to _add_to_translation_queue.
C30_WritingIsNotDownloaded ==
    [][\A j \in Jobs \ Local :
        ( /\ SubmitStep(j)
          /\ \E d \in DW : /\ pc[d] \in {"dl_write", "html_zip"}
                           /\ task[d].job = j ) =>
            pc'[Caller] # "atq"
      ]_vars

\* ---------------------------------------------------------------- C31
\* the thread holds one of the queue locks
HoldsLock(t) == _download_lock = t \/ _translation_lock = t

\* the next statement of the thread reads or writes the disk, uses the
\* network or runs the external command
AtInputOutput(t) ==
    pc[t] \in {"st_is_downloaded", "dl_open", "dl_write", "dl_html", "html_zip",
               "tw_check", "tr_prep", "tr_run", "mon_poll"}

\* C31: no thread is at a statement of disk, network or external-command
\* input/output while it holds _download_lock or _translation_lock.
C31_NoInputOutputUnderLock ==
    \A t \in Threads : HoldsLock(t) => ~AtInputOutput(t)

\* ---------------------------------------------------------------- C32
\* C32: current_progress of the QueueStatus lies in 0..100.
C32_ProgressInRange ==
    queue_status.current_progress \in 0..100

\* ---------------------------------------------------------------- C33
\* C33: a task whose archive holds .webp images only, the archive the
\* download validation accepted and the extraction unpacked, does not end
\* in translation_error.
C33_WebpArchiveTranslated ==
    \A w \in TW :
        ( /\ pc[w] = "tw_done"
          /\ task[w].job \notin Local
          /\ zip[task[w].job] = "webp"
          /\ raw[task[w].job] = "junk" ) =>
            sig[w] # <<"translation_error">>

\* ---------------------------------------------------------------- C34
\* C34: while a worker handles one task it emits at most one terminal
\* signal; when it reaches the end of its turn it has emitted exactly one,
\* the completion or the error signal of its queue, unless the task was
\* skipped at the test of is_translated, in which case it has emitted none.
C34_OneTerminalSignal ==
    [][\A w \in Workers :
        /\ Len(sig'[w]) <= 1
        /\ (pc'[w] = DoneOf(w) /\ pc[w] # DoneOf(w)) =>
              IF pc[w] = "tw_check"
              THEN sig'[w] = <<>>
              ELSE sig'[w] \in {<<CompletedOf(w)>>, <<ErrorOf(w)>>}
      ]_vars

\* C34, reached: the direct download left a zip without image entries, the
\* fallback failed, and the one signal of the task is download_error.
C34_OneErrorAfterBothPaths ==
    \E w \in DW :
        /\ pc[w] = "dw_done"
        /\ zip[task[w].job] = "noimg"
        /\ sig[w] = <<"download_error">>
        /\ completed_translations = <<>>
        /\ dq_puts = 1

\* ---------------------------------------------------------------- C35
\* C35: when no thread is running at all (no call in progress, every worker
\* and monitor thread ended), both queues are empty: no task is left
\* behind without a worker.
C35_NoTaskStranded ==
    (\A t \in Threads : pc[t] = "idle") =>
        (download_queue = <<>> /\ translation_queue = <<>>)

\* ---------------------------------------------------------------- C36
\* C36: clear_queues is never in its blocking get on an empty queue while it
\* holds the lock without which nothing can be put on that queue, a wait
\* that cannot end.
C36_ClearQueuesNotBlocked ==
    /\ ~(pc[Canceller] = "cq_d_get" /\ _download_lock = Canceller
                                     /\ download_queue = <<>>)
    /\ ~(pc[Canceller] = "cq_t_get" /\ _translation_lock = Canceller
                                     /\ translation_queue = <<>>)

\* ---------------------------------------------------------------- C37
\* C37: every dequeued task is tested with is_translated before anything is
\* done for it; a task whose job is translated at that test ends its turn
\* at once, with no monitor, no invocation, no record and no signal; and
\* run_translation is entered only for a job that has no record in
\* completed_translations, so after a successful run the later entries of
\* the job are all skipped.
C37_TranslatedEntriesSkipped ==
    [][\A w \in TW :
        /\ (pc[w] = "tw_check" /\ pc'[w] # "tw_check") =>
              IF is_translated(task[w].job)
              THEN /\ pc'[w] = "tw_done"
                   /\ sig'[w] = <<>>
                   /\ monOf'[w] = "none"
                   /\ \A m \in MON : pc'[m] = pc[m]
                   /\ UNCHANGED <<completed_translations, fs, translation_running>>
              ELSE pc'[w] = "tr_prep"
        /\ (pc[w] # "tr_run" /\ pc'[w] = "tr_run") =>
              /\ pc[w] = "tr_prep"
              /\ \A i \in 1..Len(completed_translations) :
                    completed_translations[i] # task[w].job
      ]_vars

\* C37, reached: the job was submitted three times; its first run succeeded,
\* the second entry was skipped and the third has just been skipped too:
\* there is one record.
C37_ThirdEntrySkipped ==
    \E w \in TW :
        /\ pc[w] = "tw_done"
        /\ task[w].tk = 3
        /\ sig[w] = <<>>
        /\ completed_translations = <<task[w].job>>
        /\ out[task[w].job] = plan.images

\* ---------------------------------------------------------------- C38
\* C38: from the moment a translation worker has registered its task as
\* current_translation until the end of the task's processing,
\* current_translation is that task.
C38_CurrentIsTheTaskInProcess ==
    \A w \in TW :
        ( \/ pc[w] \in {"tw_check", "tr_prep", "tr_run", "tr_join"}
          \/ (pc[w] = "emit" /\ ret[w] = "tw_check") ) =>
            current_translation = task[w]

\* ---------------------------------------------------------------- C39
\* the worker has taken a task from its queue and the task has neither
\* ended in a signal nor been skipped
InProcess(w) ==
    /\ task[w] # NoTask
    /\ sig[w] = <<>>
    /\ pc[w] # DoneOf(w)

Visible(j, status) ==
    \/ status.current_task.job = j
    \/ \E i \in 1..Len(status.queued_chapters) : status.queued_chapters[i].job = j

\* C39: every QueueStatus that _emit_queue_status publishes shows, as
\* current_task or in queued_chapters, the job of every task that a worker
\* has in process at that moment.
C39_PendingJobsVisible ==
    [][(\E t \in Threads : pc[t] = "emit" /\ pc'[t] # "emit") =>
          \A w \in Workers : InProcess(w) => Visible(task[w].job, queue_status')
      ]_vars

\* ---------------------------------------------------------------- C40
\* C40: when both queues are empty and no thread is running (no call in
\* progress, every worker and monitor thread ended), is_downloading and
\* is_translating are false and the QueueStatus shows no current task, a
\* progress of 0 and no remaining task.
C40_CleanWhenIdle ==
    ( /\ download_queue = <<>>
      /\ translation_queue = <<>>
      /\ \A t \in Threads : pc[t] = "idle" ) =>
        /\ ~is_downloading
        /\ ~is_translating
        /\ current_download = NoTask
        /\ current_translation = NoTask
        /\ queue_status = QueueStatus(NoTask, 0, 0, <<>>)

====
